---- MODULE Spec2Model ----
(***************************************************************************)
(* A model of ndarray<dtype, D> (src/ndarray.h): the shape/stride engine,  *)
(* the three indexing paths, transpose, periodic rolling, the object       *)
(* lifecycle over an explicit heap, and the elementwise arithmetic.        *)
(*                                                                         *)
(* Conventions.  A C++ array of n cells is a sequence of length n; the C++ *)
(* index k is the TLA+ index k+1.  nullptr is 0, a heap pointer is the     *)
(* index of a buffer in heap.  Buffer identities are never reused, so a    *)
(* second delete[] of the same buffer is visible as frees = 2.             *)
(***************************************************************************)
EXTENDS Integers, Sequences, FiniteSets, TLC

\* ------------------------------------------------------------------ bounds
MaxD == 3
MaxLifeD == 2
MaxMut == 1
MaxExtent == 2
MaxObj == 2
MaxBuf == 9
MaxVal == 12

\* ------------------------------------------------------- program constants
\* size_t is int32_t: its largest value
Int32Max == 2147483647

VARIABLES D, arr, heap, rawind, res, last, transposed, halted, muts

vars == <<D, arr, heap, rawind, res, last, transposed, halted, muts>>

Null == 0
Objs == 1 .. MaxObj
\* the function-local objects of operator= (copy; std::swap's temporary) and
\* of the arithmetic operators (tmp)
TmpCopy == MaxObj + 1
TmpSwap == MaxObj + 2
AllObjs == 1 .. (MaxObj + 2)

\* what an out-of-bounds read of an int next to a heap block may return
Garbage == {0, 2}
\* the values client code writes
WriteVals == {5}

\* ------------------------------------------------------ int32 arithmetic
\* a + b in two's complement, for 32-bit a and b
Wrap32Add(a, b) ==
    IF a > 0 /\ b > 0 /\ a > Int32Max - b THEN (a - Int32Max - 1) + (b - Int32Max - 1)
    ELSE IF a < 0 /\ b < 0 /\ a < (-Int32Max - 1) - b THEN (a + Int32Max + 1) + (b + Int32Max + 1)
    ELSE a + b

RECURSIVE Wrap32Mul(_, _)
\* a * b in two's complement, for 32-bit a and b >= 0 (shift and add)
Wrap32Mul(a, b) ==
    IF b = 0 THEN 0
    ELSE LET h == Wrap32Mul(a, b \div 2)
             d == Wrap32Add(h, h)
         IN  IF b % 2 = 1 THEN Wrap32Add(d, a) ELSE d

\* does the product of a >= 0 and b > 0 leave int32
MulOverflows(a, b) == a > Int32Max \div b

\* size_t * size_t as the build computes it where the result is representable;
\* an overflowing product is undefined behaviour, see CtorOutcomes
Mul32(a, b) == Wrap32Mul(a, b)

\* C++ / and % truncate toward zero (divisor > 0 here)
CDiv(a, b) == IF a >= 0 THEN a \div b ELSE -((-a) \div b)
CMod(a, b) == a - b * CDiv(a, b)

\* ------------------------------------------------------------- the heap
EmptyObj == [live |-> FALSE, shape |-> Null, stride |-> Null, head |-> Null]

\* new T[n]: a fresh buffer holding cells; the int past its end is not yet read
NewBuf(h, cells) == Append(h, [st |-> "live", cells |-> cells, past |-> <<>>, frees |-> 0])

\* delete[] p
DeleteBuf(h, p) ==
    IF p = Null THEN h
    ELSE [h EXCEPT ![p] = [st |-> "freed", cells |-> <<>>, past |-> <<>>, frees |-> @.frees + 1]]

\* the cells behind pointer p (none behind nullptr or a freed buffer)
Cells(h, p) == IF p \in 1 .. Len(h) THEN h[p].cells ELSE <<>>

\* what new dtype[n] may hold before anything is written to it
FreshData(n) == {[k \in 1 .. n |-> 0], [k \in 1 .. n |-> k]}

\* -------------------------------------------------------------- accessors
empty(S, o) == S.arr[o].stride = Null
ShapeOf(S, o) == Cells(S.heap, S.arr[o].shape)
StrideOf(S, o) == Cells(S.heap, S.arr[o].stride)
DataOf(S, o) == Cells(S.heap, S.arr[o].head)
\* size(): *_stride
size(S, o) == StrideOf(S, o)[1]

Now == [arr |-> arr, heap |-> heap]

\* a live array that owns buffers
Allocated(S, o) == S.arr[o].live /\ ~empty(S, o)

\* ------------------------------------------------------ shape constructors
\* the memory new size_t[D] and new size_t[D + 1] hand out, with _stride[D] = 1
RawShape == [k \in 1 .. D |-> 0]
RawStride == [k \in 1 .. D + 1 |-> IF k = D + 1 THEN 1 ELSE 0]

RECURSIVE WidthLoop(_, _, _, _, _)
\* ndarray(size_t width), the loop: _shape[i] = width;
\* _stride[D - i - 1] = _stride[D - i] * width.  ub: some product left int32
WidthLoop(sh, st, ub, width, i) ==
    IF i >= D THEN [shape |-> sh, stride |-> st, ub |-> ub]
    ELSE WidthLoop([sh EXCEPT ![i + 1] = width],
                   [st EXCEPT ![D - i] = Mul32(st[D - i + 1], width)],
                   ub \/ (width > 0 /\ MulOverflows(st[D - i + 1], width)),
                   width, i + 1)

RECURSIVE ArrayLoop(_, _, _, _, _)
\* ndarray(const size_t *sh), the loop: _shape[i] = sh[i];
\* _stride[D - i - 1] = _stride[D - i] * sh[D - i - 1]
ArrayLoop(sh, st, ub, src, i) ==
    IF i >= D THEN [shape |-> sh, stride |-> st, ub |-> ub]
    ELSE ArrayLoop([sh EXCEPT ![i + 1] = src[i + 1]],
                   [st EXCEPT ![D - i] = Mul32(st[D - i + 1], src[D - i])],
                   ub \/ (src[D - i] > 0 /\ MulOverflows(st[D - i + 1], src[D - i])),
                   src, i + 1)

RECURSIVE ListLoop(_, _, _, _)
\* ndarray(initializer_list<size_t> l), the loop after copy(begin(l), end(l), _shape):
\* _stride[D - i - 1] = _stride[D - i] * _shape[D - i - 1]
ListLoop(sh, st, ub, i) ==
    IF i >= D THEN [shape |-> sh, stride |-> st, ub |-> ub]
    ELSE ListLoop(sh,
                  [st EXCEPT ![D - i] = Mul32(st[D - i + 1], sh[D - i])],
                  ub \/ (sh[D - i] > 0 /\ MulOverflows(st[D - i + 1], sh[D - i])),
                  i + 1)

\* check(): every extent is positive (otherwise exit(0))
check(sh) == \A i \in 0 .. D - 1 : ~(sh[i + 1] <= 0)

\* the object a shape constructor leaves: its three buffers, in allocation order
Built(S, this, r, data) ==
    LET n == Len(S.heap)
    IN  [arr |-> [S.arr EXCEPT ![this] =
                     [live |-> TRUE, shape |-> n + 1, stride |-> n + 2, head |-> n + 3]],
         heap |-> NewBuf(NewBuf(NewBuf(S.heap, r.shape), r.stride), data)]

\* ------------------------------------------------------------- lifecycle
\* ~ndarray(): delete [] head; delete [] _shape; delete [] _stride
Dtor(S, this) ==
    [arr |-> [S.arr EXCEPT ![this] = EmptyObj],
     heap |-> DeleteBuf(DeleteBuf(DeleteBuf(S.heap, S.arr[this].head),
                                  S.arr[this].shape), S.arr[this].stride)]

\* ndarray(): all three pointers null
DefaultCtor(S, this) ==
    [arr |-> [S.arr EXCEPT ![this] = [EmptyObj EXCEPT !.live = TRUE]], heap |-> S.heap]

\* ndarray(const ndarray<T, D> &x)
CopyCtor(S, this, xo) ==
    IF empty(S, xo) THEN DefaultCtor(S, this)
    ELSE LET n == Len(S.heap)
             xshape == ShapeOf(S, xo)
             xstride == StrideOf(S, xo)
             xdata == DataOf(S, xo)
             \* _shape[i] = x.shape(i)
             nshape == [k \in 1 .. D |-> xshape[k]]
             \* _stride[i + 1] = x.stride(i); _stride[0] = x.size()
             nstride == [k \in 1 .. D + 1 |-> IF k = 1 THEN size(S, xo) ELSE xstride[k]]
             \* head = new dtype[x.size()]; head[i] = x[i] for i < size()
             ndata == [k \in 1 .. size(S, xo) |-> xdata[k]]
         IN  [arr |-> [S.arr EXCEPT ![this] =
                          [live |-> TRUE, shape |-> n + 1, stride |-> n + 2, head |-> n + 3]],
              heap |-> NewBuf(NewBuf(NewBuf(S.heap, nshape), nstride), ndata)]

\* the move constructor without the three assignments of nullptr to x
MoveCtorKeepsSource(S, this, xo) ==
    [arr |-> [S.arr EXCEPT
                 ![this] = [live |-> TRUE, shape |-> S.arr[xo].shape,
                            stride |-> S.arr[xo].stride, head |-> S.arr[xo].head]],
     heap |-> S.heap]

\* ndarray(ndarray<dtype, D> &&x)
MoveCtor(S, this, xo) ==
    [arr |-> [S.arr EXCEPT
                 ![this] = [live |-> TRUE, shape |-> S.arr[xo].shape,
                            stride |-> S.arr[xo].stride, head |-> S.arr[xo].head],
                 ![xo] = [@ EXCEPT !.shape = Null, !.head = Null, !.stride = Null]],
     heap |-> S.heap]

\* move assignment with swap(head, x.head) left out
MoveAssignKeepsHead(S, this, xo) ==
    [arr |-> [S.arr EXCEPT
                 ![this] = [@ EXCEPT !.shape = S.arr[xo].shape, !.stride = S.arr[xo].stride],
                 ![xo] = [@ EXCEPT !.shape = S.arr[this].shape, !.stride = S.arr[this].stride]],
     heap |-> S.heap]

\* operator=(ndarray<dtype, D> &&x): three pointer swaps
MoveAssign(S, this, xo) ==
    [arr |-> [S.arr EXCEPT
                 ![this] = [@ EXCEPT !.shape = S.arr[xo].shape,
                                     !.stride = S.arr[xo].stride, !.head = S.arr[xo].head],
                 ![xo] = [@ EXCEPT !.shape = S.arr[this].shape,
                                   !.stride = S.arr[this].stride, !.head = S.arr[this].head]],
     heap |-> S.heap]

\* std::swap(a, b) on two arrays: T tmp(move(a)); a = move(b); b = move(tmp); ~tmp
StdSwap(S, a, b) ==
    Dtor(MoveAssign(MoveAssign(MoveCtor(S, TmpSwap, a), a, b), b, TmpSwap), TmpSwap)

\* operator=(const ndarray<dtype, D> &x): copy, swap, and the copy dies at the brace
CopyAssign(S, this, xo) ==
    IF this = xo THEN S
    ELSE Dtor(StdSwap(CopyCtor(S, TmpCopy, xo), this, TmpCopy), TmpCopy)

\* operator=(dtype val)
Fill(S, this, val) ==
    IF empty(S, this) THEN S
    ELSE [S EXCEPT !.heap[S.arr[this].head].cells = [k \in 1 .. size(S, this) |-> val]]

\* operator[](rawind) = val
WriteRaw(S, this, r, val) == [S EXCEPT !.heap[S.arr[this].head].cells[r + 1] = val]

\* ------------------------------------------------------------ arithmetic
\* pm<N>(rhs): head[i] += N * rhs[i] for i < size()
pm(S, N, this, rhs) ==
    [S EXCEPT !.heap[S.arr[this].head].cells =
        [k \in 1 .. size(S, this) |-> DataOf(S, this)[k] + N * DataOf(S, rhs)[k]]]

\* the local tmp(*this) of operator-() and of the binary operators once their
\* loop has run: tmp[i] = vals[i] for i < size()
TmpFilled(S, this, vals) ==
    LET S1 == CopyCtor(S, TmpCopy, this)
    IN  [S1 EXCEPT !.heap[S1.arr[TmpCopy].head].cells = [k \in 1 .. size(S, this) |-> vals[k]]]

\* a reference to array o as the caller receives it
RefTo(S, o) == [target |-> o, shape |-> S.arr[o].shape, stride |-> S.arr[o].stride,
                head |-> S.arr[o].head]

\* operator-() const: tmp[i] = -head[i]; return *this; tmp dies at the brace
Negate(S, this) ==
    LET S1 == TmpFilled(S, this, [k \in 1 .. size(S, this) |-> -DataOf(S, this)[k]])
    IN  [mem |-> Dtor(S1, TmpCopy), ret |-> RefTo(S1, this)]

\* operator+(rhs) const: tmp[i] = head[i] + rhs[i]; return tmp (a reference to
\* the local); tmp dies at the brace
Plus(S, this, rhs) ==
    LET S1 == TmpFilled(S, this, [k \in 1 .. size(S, this) |->
                                     DataOf(S, this)[k] + DataOf(S, rhs)[k]])
    IN  [mem |-> Dtor(S1, TmpCopy), ret |-> RefTo(S1, TmpCopy)]

\* operator-(rhs) const
Minus(S, this, rhs) ==
    LET S1 == TmpFilled(S, this, [k \in 1 .. size(S, this) |->
                                     DataOf(S, this)[k] - DataOf(S, rhs)[k]])
    IN  [mem |-> Dtor(S1, TmpCopy), ret |-> RefTo(S1, TmpCopy)]

\* ------------------------------------------------------------- indexing
RECURSIVE CooLoop(_, _, _, _)
\* operator()(const size_t *coo): offset += coo[i] * _stride[i + 1]
CooLoop(stride, coo, i, offset) ==
    IF i >= Len(coo) THEN offset
    ELSE CooLoop(stride, coo, i + 1, offset + coo[i + 1] * stride[i + 2])

\* the loop started at i = 1
CooOffsetFromOne(stride, coo) == CooLoop(stride, coo, 1, 0)

CooOffset(stride, coo) == CooLoop(stride, coo, 0, 0)

RECURSIVE adder(_, _, _)
\* adder(p, first, args...): *p * first + adder(p + 1, args...); p is a C++ index
\* into _stride
adder(stride, p, args) ==
    IF Len(args) = 1 THEN stride[p + 1] * args[1]
    ELSE stride[p + 1] * args[1] + adder(stride, p + 1, Tail(args))

\* operator()(Args... args): adder(_stride + 1, args...)
VariadicOffset(stride, args) == adder(stride, 1, args)

\* rollindex with the wrap tested against _shape[axis] instead of _shape[axis] - 1
rollindexLate(dir, shape, stride, r, axis) ==
    LET axisind == CDiv(CMod(r, stride[axis + 1]), stride[axis + 2])
        r1 == r + (2 * dir - 1) * stride[axis + 2]
    IN  IF axisind = dir * shape[axis + 1]
        THEN r1 - (2 * dir - 1) * stride[axis + 1]
        ELSE r1

\* rollindex<dir>(rawind, axis); dir is 0 (false) or 1 (true)
rollindex(dir, shape, stride, r, axis) ==
    LET axisind == CDiv(CMod(r, stride[axis + 1]), stride[axis + 2])
        r1 == r + (2 * dir - 1) * stride[axis + 2]
    IN  IF axisind = dir * (shape[axis + 1] - 1)
        THEN r1 - (2 * dir - 1) * stride[axis + 1]
        ELSE r1

\* rollind(rawind, ax)
rollind(shape, stride, r, ax) ==
    IF ax < 0 THEN rollindex(0, shape, stride, r, ax + D)
    ELSE rollindex(1, shape, stride, r, ax)

\* ------------------------------------------------------------ transpose
\* transpose(i, j): swap(_stride[i + 1], _stride[j + 1]); swap(_shape[i + 1], _shape[j + 1]).
\* _shape has D cells, so _shape[D] is the int past its end: g is what the first
\* read of it returns, and what is written there stays there.
TransposeOf(S, this, i, j, g) ==
    LET ps == S.arr[this].stride
        pp == S.arr[this].shape
        st == S.heap[ps].cells
        ext == S.heap[pp].cells \o (IF S.heap[pp].past = <<>> THEN <<g>> ELSE S.heap[pp].past)
        st2 == [st EXCEPT ![i + 2] = st[j + 2], ![j + 2] = st[i + 2]]
        ext2 == [ext EXCEPT ![i + 2] = ext[j + 2], ![j + 2] = ext[i + 2]]
        past2 == IF i + 1 = D \/ j + 1 = D THEN <<ext2[D + 1]>> ELSE S.heap[pp].past
    IN  [S EXCEPT !.heap = [S.heap EXCEPT ![ps].cells = st2,
                                          ![pp].cells = SubSeq(ext2, 1, D),
                                          ![pp].past = past2]]

\* whether transpose(i, j) reads the int past _shape before anything wrote it
ReadsPast(S, this, i, j) ==
    (i + 1 = D \/ j + 1 = D) /\ S.heap[S.arr[this].shape].past = <<>>

\* ----------------------------------------------------------------- actions
Op(name, a, b, i, j) == [op |-> name, this |-> a, x |-> b, i |-> i, j |-> j]

NoRes == [target |-> 0, shape |-> Null, stride |-> Null, head |-> Null]

\* the program before its first statement, for a rank up to maxd
InitRank(maxd) ==
    /\ D \in 1 .. maxd
    /\ muts = 0
    /\ arr = [o \in AllObjs |-> EmptyObj]
    /\ heap = <<>>
    /\ rawind = 0
    /\ res = NoRes
    /\ last = Op("init", 0, 0, 0, 0)
    /\ transposed = {}
    /\ halted = FALSE

\* a shape constructor from the loop's result r.  An overflowing stride product
\* is undefined: the build wraps it (r holds the wrapped strides) or traps on it.
\* exit(0) in check(), the trap, and new dtype[size()] throwing on a negative size
\* all end the program.
Construct(this, r, name) ==
    /\ ~halted /\ ~arr[this].live /\ Len(heap) + 3 <= MaxBuf
    /\ \E trap \in (IF r.ub THEN BOOLEAN ELSE {FALSE}) :
          IF trap \/ ~check(r.shape) \/ r.stride[1] < 0
          THEN /\ halted' = TRUE
               /\ last' = Op("exit", this, 0, 0, 0)
               /\ UNCHANGED <<D, arr, heap, rawind, res, transposed>>
          ELSE /\ \E data \in FreshData(r.stride[1]) :
                     /\ arr' = Built(Now, this, r, data).arr
                     /\ heap' = Built(Now, this, r, data).heap
               /\ last' = Op(name, this, 0, 0, 0)
               /\ UNCHANGED <<D, rawind, res, transposed, halted>>

CtorWidth(this, width) ==
    Construct(this, WidthLoop(RawShape, RawStride, FALSE, width, 0), "ctor_width")

CtorArray(this, sh) ==
    Construct(this, ArrayLoop(RawShape, RawStride, FALSE, sh, 0), "ctor_array")

\* l.size() != D ends the program before anything is computed
CtorList(this, l) ==
    IF Len(l) # D
    THEN /\ ~halted /\ ~arr[this].live /\ Len(heap) + 3 <= MaxBuf
         /\ halted' = TRUE
         /\ last' = Op("exit", this, 0, 0, 0)
         /\ UNCHANGED <<D, arr, heap, rawind, res, transposed>>
    ELSE Construct(this, ListLoop(l, RawStride, FALSE, 0), "ctor_list")

Destroy(this) ==
    /\ ~halted /\ arr[this].live
    /\ arr' = Dtor(Now, this).arr
    /\ heap' = Dtor(Now, this).heap
    /\ last' = Op("dtor", this, 0, 0, 0)
    /\ UNCHANGED <<D, rawind, res, transposed, halted>>

Transpose(this, i, j) ==
    /\ ~halted /\ Allocated(Now, this)
    /\ \E g \in (IF ReadsPast(Now, this, i, j) THEN Garbage ELSE {0}) :
          heap' = TransposeOf(Now, this, i, j, g).heap
    /\ transposed' = transposed \cup {arr[this].stride}
    /\ last' = Op("transpose", this, 0, i, j)
    /\ UNCHANGED <<D, arr, rawind, res, halted>>

\* client code takes a raw offset of array this
PickOffset(this, r) ==
    /\ ~halted /\ Allocated(Now, this)
    /\ r \in 0 .. size(Now, this) - 1
    /\ rawind' = r
    /\ last' = Op("pick", this, 0, 0, 0)
    /\ UNCHANGED <<D, arr, heap, res, transposed, halted>>

\* rawind = a.rollind(rawind, ax)
Roll(this, ax) ==
    /\ ~halted /\ Allocated(Now, this)
    /\ rawind \in 0 .. size(Now, this) - 1
    /\ rawind' = rollind(ShapeOf(Now, this), StrideOf(Now, this), rawind, ax)
    /\ last' = Op("roll", this, 0, ax, 0)
    /\ UNCHANGED <<D, arr, heap, res, transposed, halted>>

DefaultConstruct(this) ==
    /\ ~halted /\ ~arr[this].live
    /\ arr' = DefaultCtor(Now, this).arr
    /\ last' = Op("default_ctor", this, 0, 0, 0)
    /\ UNCHANGED <<D, heap, rawind, res, transposed, halted>>

\* the copy's stride buffer is the second of its three allocations
CopiedFlag(xo) ==
    IF arr[xo].stride \in transposed THEN transposed \cup {Len(heap) + 2} ELSE transposed

\* ndarray c(x)
CopyConstruct(this, xo) ==
    /\ ~halted /\ ~arr[this].live /\ arr[xo].live /\ Len(heap) + 3 <= MaxBuf
    /\ arr' = CopyCtor(Now, this, xo).arr
    /\ heap' = CopyCtor(Now, this, xo).heap
    /\ transposed' = CopiedFlag(xo)
    /\ last' = Op("copy_ctor", this, xo, 0, 0)
    /\ UNCHANGED <<D, rawind, res, halted>>

\* ndarray c(std::move(x))
MoveConstruct(this, xo) ==
    /\ ~halted /\ ~arr[this].live /\ arr[xo].live
    /\ arr' = MoveCtor(Now, this, xo).arr
    /\ last' = Op("move_ctor", this, xo, 0, 0)
    /\ UNCHANGED <<D, heap, rawind, res, transposed, halted>>

\* a = x
CopyAssignment(this, xo) ==
    /\ ~halted /\ arr[this].live /\ arr[xo].live /\ Len(heap) + 3 <= MaxBuf
    /\ arr' = CopyAssign(Now, this, xo).arr
    /\ heap' = CopyAssign(Now, this, xo).heap
    /\ transposed' = IF this = xo THEN transposed ELSE CopiedFlag(xo)
    /\ last' = Op("copy_assign", this, xo, 0, 0)
    /\ UNCHANGED <<D, rawind, res, halted>>

\* a = std::move(x)
MoveAssignment(this, xo) ==
    /\ ~halted /\ arr[this].live /\ arr[xo].live
    /\ arr' = MoveAssign(Now, this, xo).arr
    /\ last' = Op("move_assign", this, xo, 0, 0)
    /\ UNCHANGED <<D, heap, rawind, res, transposed, halted>>

\* a = val
FillAssign(this, val) ==
    /\ ~halted /\ arr[this].live
    /\ heap' = Fill(Now, this, val).heap
    /\ last' = Op("fill", this, 0, 0, 0)
    /\ UNCHANGED <<D, arr, rawind, res, transposed, halted>>

\* a[r] = val, r a raw offset of a
ElemWrite(this, r, val) ==
    /\ ~halted /\ Allocated(Now, this)
    /\ r \in 0 .. size(Now, this) - 1
    /\ heap' = WriteRaw(Now, this, r, val).heap
    /\ last' = Op("write", this, 0, 0, 0)
    /\ UNCHANGED <<D, arr, rawind, res, transposed, halted>>

\* the precondition of the elementwise operators: two arrays of one shape
SameShape(a, b) ==
    /\ Allocated(Now, a) /\ Allocated(Now, b)
    /\ ShapeOf(Now, a) = ShapeOf(Now, b)
    /\ size(Now, a) = size(Now, b)

InRange(cells) == \A k \in 1 .. Len(cells) : cells[k] \in -MaxVal .. MaxVal

\* a += b
PlusAssign(this, rhs) ==
    /\ ~halted /\ SameShape(this, rhs)
    /\ InRange(DataOf(pm(Now, 1, this, rhs), this))
    /\ heap' = pm(Now, 1, this, rhs).heap
    /\ last' = Op("plus_assign", this, rhs, 0, 0)
    /\ UNCHANGED <<D, arr, rawind, res, transposed, halted>>

\* a -= b
MinusAssign(this, rhs) ==
    /\ ~halted /\ SameShape(this, rhs)
    /\ InRange(DataOf(pm(Now, -1, this, rhs), this))
    /\ heap' = pm(Now, -1, this, rhs).heap
    /\ last' = Op("minus_assign", this, rhs, 0, 0)
    /\ UNCHANGED <<D, arr, rawind, res, transposed, halted>>

\* r = -a
UnaryMinus(this) ==
    /\ ~halted /\ Allocated(Now, this) /\ Len(heap) + 3 <= MaxBuf
    /\ arr' = Negate(Now, this).mem.arr
    /\ heap' = Negate(Now, this).mem.heap
    /\ res' = Negate(Now, this).ret
    /\ last' = Op("negate", this, 0, 0, 0)
    /\ UNCHANGED <<D, rawind, transposed, halted>>

\* r = a + b
BinaryPlus(this, rhs) ==
    /\ ~halted /\ SameShape(this, rhs) /\ Len(heap) + 3 <= MaxBuf
    /\ arr' = Plus(Now, this, rhs).mem.arr
    /\ heap' = Plus(Now, this, rhs).mem.heap
    /\ res' = Plus(Now, this, rhs).ret
    /\ last' = Op("plus", this, rhs, 0, 0)
    /\ UNCHANGED <<D, rawind, transposed, halted>>

\* r = a - b
BinaryMinus(this, rhs) ==
    /\ ~halted /\ SameShape(this, rhs) /\ Len(heap) + 3 <= MaxBuf
    /\ arr' = Minus(Now, this, rhs).mem.arr
    /\ heap' = Minus(Now, this, rhs).mem.heap
    /\ res' = Minus(Now, this, rhs).ret
    /\ last' = Op("minus", this, rhs, 0, 0)
    /\ UNCHANGED <<D, rawind, transposed, halted>>

Extents == 1 .. MaxExtent
Shapes == [1 .. D -> Extents]
Axes == 0 .. D - 1

\* muts counts the writes, fills and transposes of a run where a specification
\* bounds them
Free == UNCHANGED muts
Budget == muts < MaxMut /\ muts' = muts + 1

\* one array: construction, transposition, rolling
InitIndex == InitRank(MaxD)

NextIndex ==
    \/ \E width \in Extents : CtorWidth(1, width) /\ Free
    \/ \E sh \in Shapes : CtorArray(1, sh) /\ Free
    \/ \E l \in Shapes : CtorList(1, l) /\ Free
    \/ \E i, j \in Axes : Transpose(1, i, j) /\ Free
    \/ \E r \in 0 .. MaxVal : PickOffset(1, r) /\ Free
    \/ \E ax \in -D .. D - 1 : Roll(1, ax) /\ Free

SpecIndex == InitIndex /\ [][NextIndex]_vars

\* the lifecycle of MaxObj arrays of one rank
Init == InitRank(MaxLifeD)

Next ==
    \/ \E o \in Objs : \E width \in Extents : CtorWidth(o, width) /\ Free
    \/ \E o \in Objs : \E sh \in Shapes : CtorArray(o, sh) /\ Free
    \/ \E o \in Objs : \E l \in Shapes : CtorList(o, l) /\ Free
    \/ \E o \in Objs : DefaultConstruct(o) /\ Free
    \/ \E o, xo \in Objs : CopyConstruct(o, xo) /\ Free
    \/ \E o, xo \in Objs : MoveConstruct(o, xo) /\ Free
    \/ \E o, xo \in Objs : CopyAssignment(o, xo) /\ Free
    \/ \E o, xo \in Objs : MoveAssignment(o, xo) /\ Free
    \/ \E o \in Objs : Destroy(o) /\ Free
    \/ \E o \in Objs : \E i, j \in Axes : Transpose(o, i, j) /\ Budget
    \/ \E o \in Objs : \E val \in WriteVals : FillAssign(o, val) /\ Budget
    \/ \E o \in Objs : \E r \in 0 .. MaxVal : \E val \in WriteVals :
          ElemWrite(o, r, val) /\ Budget

Spec == Init /\ [][Next]_vars

\* two arrays of one rank and the elementwise operators; a run makes at most
\* MaxMut transposes and then applies one operator
OpBudget == muts <= MaxMut /\ muts' = MaxMut + 1

InitArith == InitRank(MaxD)

NextArith ==
    \/ \E o \in Objs : \E sh \in Shapes : CtorArray(o, sh) /\ Free
    \/ \E o \in Objs : \E i, j \in Axes : Transpose(o, i, j) /\ Budget
    \/ \E o, xo \in Objs : PlusAssign(o, xo) /\ OpBudget
    \/ \E o, xo \in Objs : MinusAssign(o, xo) /\ OpBudget
    \/ \E o \in Objs : UnaryMinus(o) /\ OpBudget
    \/ \E o, xo \in Objs : BinaryPlus(o, xo) /\ OpBudget
    \/ \E o, xo \in Objs : BinaryMinus(o, xo) /\ OpBudget

SpecArith == InitArith /\ [][NextArith]_vars

\* one array built by each of the shape constructors from extents up to 2^16,
\* among them a zero extent and lists of the wrong length
BigExtents == {0, 1, 65536}

InitCtor == InitRank(MaxD)

NextCtor ==
    \/ \E width \in BigExtents : CtorWidth(1, width) /\ Free
    \/ \E sh \in [1 .. D -> BigExtents] : CtorArray(1, sh) /\ Free
    \/ \E l \in [1 .. D -> BigExtents] \cup [1 .. D + 1 -> {1}] : CtorList(1, l) /\ Free
    \/ Destroy(1) /\ Free

SpecCtor == InitCtor /\ [][NextCtor]_vars

\* ------------------------------------------------------- claims: indexing
Then == [arr |-> arr', heap |-> heap']

\* an array no transpose has touched since its construction
Fresh(o) == Allocated(Now, o) /\ arr[o].stride \notin transposed

MaxOf(seq) == IF seq = <<>> THEN 0 ELSE CHOOSE m \in {seq[k] : k \in 1 .. Len(seq)} :
                                          \A k \in 1 .. Len(seq) : seq[k] <= m

\* the coordinate tuples in range of a shape
Coords(shape) ==
    {c \in [1 .. Len(shape) -> 0 .. MaxOf(shape) - 1] : \A k \in 1 .. Len(shape) : c[k] < shape[k]}

LexLess(t, c) ==
    \E k \in 1 .. Len(c) : t[k] < c[k] /\ \A m \in 1 .. k - 1 : t[m] = c[m]

\* the position of c when the tuples in range are listed last axis fastest
RowMajorPos(c, shape) == Cardinality({t \in Coords(shape) : LexLess(t, c)})

\* C1: on a fresh array the coordinate offset of every tuple in range is its
\* row-major position, the variadic offset of its first k coordinates is the same
\* offset when the other coordinates are 0, and the offsets are exactly 0 .. size-1,
\* each once.
C1_IndexPathsAgree ==
    \A o \in Objs : Fresh(o) =>
        LET sh == ShapeOf(Now, o)
            st == StrideOf(Now, o)
        IN  /\ \A c \in Coords(sh) :
                  /\ CooOffset(st, c) = RowMajorPos(c, sh)
                  /\ \A k \in 1 .. D :
                        (\A m \in k + 1 .. D : c[m] = 0)
                            => VariadicOffset(st, SubSeq(c, 1, k)) = CooOffset(st, c)
            /\ {CooOffset(st, c) : c \in Coords(sh)} = 0 .. size(Now, o) - 1
            /\ Cardinality(Coords(sh)) = size(Now, o)

\* a fresh array of rank >= 2 with every extent >= 2
C1_Witness ==
    \E o \in Objs : Fresh(o) /\ D >= 2 /\ \A k \in 1 .. D : ShapeOf(Now, o)[k] >= 2

RECURSIVE RollN(_, _, _, _, _)
\* rollind(., ax) applied n times to r
RollN(sh, st, r, ax, n) ==
    IF n = 0 THEN r ELSE RollN(sh, st, rollind(sh, st, r, ax), ax, n - 1)

C4_RollAfterTranspose ==
    \A o \in Objs : Allocated(Now, o) =>
        LET sh == ShapeOf(Now, o)
            st == StrideOf(Now, o)
        IN  \A c \in Coords(sh) : \A a \in Axes :
                /\ rollindex(1, sh, st, CooOffset(st, c), a)
                      = CooOffset(st, [c EXCEPT ![a + 1] = (c[a + 1] + 1) % sh[a + 1]])
                /\ rollindex(0, sh, st, CooOffset(st, c), a)
                      = CooOffset(st, [c EXCEPT ![a + 1] = (c[a + 1] - 1) % sh[a + 1]])

Swapped(seq, p, q) == [seq EXCEPT ![p] = seq[q], ![q] = seq[p]]

\* C2 (as claimed): transpose(i, j) exchanges shape[i] with shape[j] and the
\* stride of axis i with the stride of axis j, and leaves the size, the data and
\* every other array as they were.
C2_TransposeSwaps ==
    [][last'.op = "transpose" =>
         LET o == last'.this
             i == last'.i
             j == last'.j
         IN  /\ ShapeOf(Then, o) = Swapped(ShapeOf(Now, o), i + 1, j + 1)
             /\ StrideOf(Then, o) = Swapped(StrideOf(Now, o), i + 2, j + 2)
             /\ DataOf(Then, o) = DataOf(Now, o)
             /\ arr' = arr
             /\ \A q \in Objs \ {o} :
                   /\ ShapeOf(Then, q) = ShapeOf(Now, q)
                   /\ StrideOf(Then, q) = StrideOf(Now, q)
                   /\ DataOf(Then, q) = DataOf(Now, q)]_vars

\* ------------------------------------------------------ claims: lifecycle
\* what an array shows through shape(), stride(), size() and operator[]
View(S, o) == [shape |-> ShapeOf(S, o), stride |-> StrideOf(S, o), data |-> DataOf(S, o)]

Ptrs(S, o) == {S.arr[o].shape, S.arr[o].stride, S.arr[o].head} \ {Null}

OwnsNothing(S, o) == Ptrs(S, o) = {}

\* C7 (as claimed): after a move construction or a move assignment the source
\* owns nothing and the destination has the shape, strides and elements the
\* source had.
C7_MoveEmptiesSource ==
    [][last'.op \in {"move_ctor", "move_assign"} =>
         /\ OwnsNothing(Then, last'.x)
         /\ View(Then, last'.this) = View(Now, last'.x)]_vars

\* C7 (amended): a move construction leaves the source owning nothing; a move
\* assignment exchanges the buffers of the two arrays, so the source ends with
\* what the destination held and owns nothing only if the destination owned
\* nothing; in both the destination ends with the very buffers, hence the shape,
\* strides and elements, the source had, and no buffer is touched.
C7_MoveTransfers ==
    [][last'.op \in {"move_ctor", "move_assign"} =>
         LET this == last'.this
             xo == last'.x
         IN  /\ heap' = heap
             /\ View(Then, this) = View(Now, xo)
             /\ arr'[this].shape = arr[xo].shape
             /\ arr'[this].stride = arr[xo].stride
             /\ arr'[this].head = arr[xo].head
             /\ last'.op = "move_ctor" => OwnsNothing(Then, xo)
             /\ last'.op = "move_assign" =>
                   /\ View(Then, xo) = View(Now, this)
                   /\ Ptrs(Then, xo) = Ptrs(Now, this)
                   /\ OwnsNothing(Then, xo) <=> OwnsNothing(Now, this)]_vars

\* a move assignment between two different arrays that both held buffers
C7_Witness ==
    /\ last.op = "move_assign" /\ last.this # last.x
    /\ Allocated(Now, last.this) /\ Allocated(Now, last.x)
    /\ View(Now, last.this) # View(Now, last.x)

\* C9: every live array has all three buffers or none, no buffer belongs to two
\* live arrays (or twice to one), no buffer was freed twice, and every buffer
\* not yet freed belongs to a live array.
C9_Ownership ==
    /\ \A o \in AllObjs :
          /\ arr[o].live =>
                \/ OwnsNothing(Now, o)
                \/ /\ Cardinality(Ptrs(Now, o)) = 3
                   /\ \A p \in Ptrs(Now, o) : p \in 1 .. Len(heap) /\ heap[p].st = "live"
          /\ ~arr[o].live => OwnsNothing(Now, o)
    /\ \A o, q \in AllObjs : o # q => Ptrs(Now, o) \cap Ptrs(Now, q) = {}
    /\ \A p \in 1 .. Len(heap) :
          /\ heap[p].frees <= 1
          /\ heap[p].st = "freed" <=> heap[p].frees = 1
          /\ heap[p].st = "live" => \E o \in AllObjs : arr[o].live /\ p \in Ptrs(Now, o)

\* a copy assignment has replaced the buffers of an array that held some, and
\* both arrays hold buffers
C9_Witness ==
    /\ last.op = "copy_assign" /\ last.this # last.x
    /\ Allocated(Now, last.this) /\ Allocated(Now, last.x)
    /\ Cardinality({p \in 1 .. Len(heap) : heap[p].st = "freed"}) >= 3

\* does tuple c name an element of array o
InBuf(S, o, c) == CooOffset(StrideOf(S, o), c) \in 0 .. Len(DataOf(S, o)) - 1

\* operator()(coo) where it names an element
ElemAt(S, o, c) == DataOf(S, o)[CooOffset(StrideOf(S, o), c) + 1]

\* C6 (as claimed): a copy (constructed or assigned) has the shape, the strides,
\* the size and, at every coordinate tuple in range, the element of its source,
\* in buffers of its own; a copy of an empty array is empty; a later write, fill
\* or transpose on one array changes no other array.
C6_CopyEqualIndependent ==
    [][/\ (last'.op \in {"copy_ctor", "copy_assign"} /\ last'.this # last'.x) =>
            LET c == last'.this
                s == last'.x
            IN  /\ empty(Then, s) => OwnsNothing(Then, c)
                /\ ~empty(Then, s) =>
                      /\ ShapeOf(Then, c) = ShapeOf(Then, s)
                      /\ StrideOf(Then, c) = StrideOf(Then, s)
                      /\ Ptrs(Then, c) \cap Ptrs(Then, s) = {}
                      /\ \A coo \in Coords(ShapeOf(Then, s)) :
                            /\ InBuf(Then, s, coo) /\ InBuf(Then, c, coo)
                            /\ ElemAt(Then, c, coo) = ElemAt(Then, s, coo)
       /\ last'.op \in {"write", "fill", "transpose"} =>
            \A q \in Objs \ {last'.this} : View(Then, q) = View(Now, q)]_vars

\* --------------------------------------------------- claims: construction
\* c is the product of a >= 0 and b > 0, and the product is an int32
ExactProduct(a, b, c) == a >= 0 /\ ~MulOverflows(a, b) /\ c = a * b

RECURSIVE IsProduct(_, _, _)
\* n is the product of shape[k], shape[k + 1], ... (all positive)
IsProduct(shape, k, n) ==
    IF k > Len(shape) THEN n = 1
    ELSE n >= 1 /\ n % shape[k] = 0 /\ IsProduct(shape, k + 1, n \div shape[k])

\* C5 (as claimed): whichever shape constructor built it from positive extents,
\* an array has stride[D] = 1, stride[i] = stride[i + 1] * shape[i] and
\* size = product(shape).
C5_StridesAreProducts ==
    \A o \in Objs : Allocated(Now, o) =>
        LET sh == ShapeOf(Now, o)
            st == StrideOf(Now, o)
        IN  /\ st[D + 1] = 1
            /\ \A i \in 1 .. D : ExactProduct(st[i + 1], sh[i], st[i])
            /\ IsProduct(sh, 1, size(Now, o))

\* ----------------------------------------------------- claims: arithmetic
\* C8 (as claimed): -a, a + b and a - b return an array that is neither operand,
\* is alive after the call and holds -a[i], a[i] + b[i], a[i] - b[i] in the
\* shape of a; the operands are as before.
C8_OperatorsReturnNewArray ==
    [][last'.op \in {"negate", "plus", "minus"} =>
         LET a == last'.this
             b == last'.x
             r == res'
             want(k) == CASE last'.op = "negate" -> -DataOf(Now, a)[k]
                          [] last'.op = "plus" -> DataOf(Now, a)[k] + DataOf(Now, b)[k]
                          [] OTHER -> DataOf(Now, a)[k] - DataOf(Now, b)[k]
         IN  /\ r.target \notin {a, b}
             /\ arr'[r.target].live
             /\ arr'[r.target].head = r.head
             /\ Cells(heap', r.shape) = ShapeOf(Now, a)
             /\ Cells(heap', r.head) = [k \in 1 .. size(Now, a) |-> want(k)]
             /\ View(Then, a) = View(Now, a)
             /\ b # 0 => View(Then, b) = View(Now, b)]_vars

\* C10 (as claimed): after a += b (a -= b) on arrays of one shape, at every
\* coordinate tuple c that names an element of both, a(c) is the old a(c) plus
\* (minus) b(c); b and the shape and strides of a are as before.
C10_CompoundAssignByCoordinate ==
    [][last'.op \in {"plus_assign", "minus_assign"} =>
         LET a == last'.this
             b == last'.x
             sign == IF last'.op = "plus_assign" THEN 1 ELSE -1
         IN  /\ \A c \in Coords(ShapeOf(Now, a)) :
                   (InBuf(Now, a, c) /\ InBuf(Now, b, c)) =>
                       ElemAt(Then, a, c) = ElemAt(Now, a, c) + sign * ElemAt(Now, b, c)
             /\ a # b => View(Then, b) = View(Now, b)
             /\ ShapeOf(Then, a) = ShapeOf(Now, a)
             /\ StrideOf(Then, a) = StrideOf(Now, a)]_vars

====
